---- MODULE Spec2Model ----
(***************************************************************************)
(* Model of checkmate-mcp's streaming core:                                *)
(*   - CheckmateClient.executeTestCase / executeSteps / parseSSEStream     *)
(*     (src/src/checkmate-client.ts), the SSE stream client and decoder,   *)
(*     with the run_test / run_natural_test collecting loop;               *)
(*   - the /proxy/... relay handlers of the express server.                *)
(* Text is a sequence of one-character strings; the transport delivers     *)
(* bytes, and the two bytes "C3" "A9" are the UTF-8 encoding of U+00E9.    *)
(***************************************************************************)
EXTENDS Integers, Sequences, FiniteSets, TLC

\* ------------------------------------------------------------------ bounds
MaxLines == 2

\* ------------------------------------------------------- text primitives
NL == "\n"
LeadBytes == {"C3"}
ContBytes == {"A9"}
EAcute == "U+00E9"
Replacement == "U+FFFD"

\* What the decoder emits for the byte at index i of c (the held-back bytes
\* followed by the chunk): a character, or Skip for a byte that emits none.
Skip == "skip"

DecodedAt(c, i) ==
  IF c[i] \in LeadBytes
  THEN IF i = Len(c) THEN Skip
       ELSE IF c[i + 1] \in ContBytes THEN EAcute ELSE Replacement
  ELSE IF c[i] \in ContBytes
  THEN IF i > 1 /\ c[i - 1] \in LeadBytes THEN Skip ELSE Replacement
  ELSE c[i]

Emitted(x) == x # Skip

\* A decoder that flushes at every chunk (no {stream: true}).
DecodeNoStream(pend, bytes) ==
  LET m == [i \in 1..Len(bytes) |->
              IF i = Len(bytes) /\ bytes[i] \in LeadBytes THEN Replacement
              ELSE DecodedAt(bytes, i)]
  IN [text |-> SelectSeq(m, Emitted), pend |-> <<>>]

\* TextDecoder.decode(value, {stream: true}): an incomplete multi-byte
\* sequence at the end of a chunk is held back in the decoder.
DecodeStream(pend, bytes) ==
  LET c == pend \o bytes
      m == [i \in 1..Len(c) |-> DecodedAt(c, i)]
  IN [text |-> SelectSeq(m, Emitted),
      pend |-> IF c # <<>> /\ c[Len(c)] \in LeadBytes THEN <<c[Len(c)]>> ELSE <<>>]

\* String.prototype.split("\n")
RECURSIVE Split(_)
Split(s) ==
  IF \A i \in 1..Len(s) : s[i] # NL THEN <<s>>
  ELSE LET n == CHOOSE i \in 1..Len(s) : s[i] = NL /\ \A j \in 1..(i - 1) : s[j] # NL
       IN <<SubSeq(s, 1, n - 1)>> \o Split(SubSeq(s, n + 1, Len(s)))

StartsWith(s, p) == Len(s) >= Len(p) /\ SubSeq(s, 1, Len(p)) = p

Slice(s, n) == SubSeq(s, n + 1, Len(s))

WhiteSpace == {" ", "\t", "\r", NL}

RECURSIVE TrimStart(_)
TrimStart(s) ==
  IF s # <<>> /\ Head(s) \in WhiteSpace THEN TrimStart(Tail(s)) ELSE s

RECURSIVE TrimEnd(_)
TrimEnd(s) ==
  IF s # <<>> /\ s[Len(s)] \in WhiteSpace THEN TrimEnd(SubSeq(s, 1, Len(s) - 1)) ELSE s

\* String.prototype.trim()
Trim(s) == TrimEnd(TrimStart(s))

DataPrefix == <<"d", "a", "t", "a", ":", " ">>

PrefixLen == 6

\* ------------------------------------------------------------ JSON.parse
\* JSON.parse over the subset of JSON the modelled streams use: integers,
\* null, strings without escapes, objects of string keys (nested values
\* allowed), with JSON whitespace between tokens.
Digits == {"0", "1", "2", "3", "4", "5", "6", "7", "8", "9"}

JsonWs == {" ", "\t", "\r", NL}

Fail == [ok |-> FALSE]

RECURSIVE SkipWs(_)
SkipWs(s) == IF s # <<>> /\ Head(s) \in JsonWs THEN SkipWs(Tail(s)) ELSE s

RECURSIVE ScanString(_, _)
ScanString(s, acc) ==
  IF s = <<>> THEN Fail
  ELSE IF Head(s) = "\"" THEN [ok |-> TRUE, val |-> [kind |-> "string", str |-> acc], rest |-> Tail(s)]
  ELSE IF Head(s) \in {"\\", NL, "\r", "\t"} THEN Fail
  ELSE ScanString(Tail(s), Append(acc, Head(s)))

RECURSIVE ScanDigits(_, _)
ScanDigits(s, acc) ==
  IF s # <<>> /\ Head(s) \in Digits THEN ScanDigits(Tail(s), Append(acc, Head(s)))
  ELSE [ok |-> TRUE, val |-> [kind |-> "number", text |-> acc], rest |-> s]

NullText == <<"n", "u", "l", "l">>

RECURSIVE ParseValue(_)
RECURSIVE ParseMembers(_, _)
ParseValue(s0) ==
  LET s == SkipWs(s0) IN
  IF s = <<>> THEN Fail
  ELSE IF Head(s) = "{" THEN
    LET t == SkipWs(Tail(s)) IN
    IF t # <<>> /\ Head(t) = "}"
    THEN [ok |-> TRUE, val |-> [kind |-> "object", members |-> <<>>], rest |-> Tail(t)]
    ELSE ParseMembers(t, <<>>)
  ELSE IF Head(s) = "\"" THEN ScanString(Tail(s), <<>>)
  ELSE IF Head(s) = "0" THEN [ok |-> TRUE, val |-> [kind |-> "number", text |-> <<"0">>], rest |-> Tail(s)]
  ELSE IF Head(s) \in Digits THEN ScanDigits(s, <<>>)
  ELSE IF StartsWith(s, NullText) THEN [ok |-> TRUE, val |-> [kind |-> "null"], rest |-> Slice(s, 4)]
  ELSE Fail

ParseMembers(s0, acc) ==
  LET s == SkipWs(s0) IN
  IF s = <<>> \/ Head(s) # "\"" THEN Fail
  ELSE LET k == ScanString(Tail(s), <<>>) IN
    IF ~k.ok THEN Fail
    ELSE LET c == SkipWs(k.rest) IN
      IF c = <<>> \/ Head(c) # ":" THEN Fail
      ELSE LET v == ParseValue(Tail(c)) IN
        IF ~v.ok THEN Fail
        ELSE LET e == SkipWs(v.rest)
                 m == Append(acc, [key |-> k.val.str, val |-> v.val]) IN
          IF e = <<>> THEN Fail
          ELSE IF Head(e) = "," THEN ParseMembers(Tail(e), m)
          ELSE IF Head(e) = "}" THEN [ok |-> TRUE, val |-> [kind |-> "object", members |-> m], rest |-> Tail(e)]
          ELSE Fail

\* A parser that accepts any text as an opaque value.
JSONParseLenient(s) ==
  LET r == ParseValue(s) IN
  IF r.ok /\ SkipWs(r.rest) = <<>> THEN [ok |-> TRUE, val |-> r.val]
  ELSE [ok |-> TRUE, val |-> [kind |-> "string", str |-> s]]

\* JSON.parse(data): throws (ok = FALSE) unless the whole text is one value.
JSONParse(s) ==
  LET r == ParseValue(s) IN
  IF r.ok /\ SkipWs(r.rest) = <<>> THEN [ok |-> TRUE, val |-> r.val] ELSE Fail

TypeKey == <<"t", "y", "p", "e">>

\* event.type of a parsed value: the string under the key "type" of an
\* object (the last such member wins), "undefined" otherwise.
RECURSIVE MemberType(_, _)
MemberType(ms, cur) ==
  IF ms = <<>> THEN cur
  ELSE MemberType(Tail(ms),
         IF Head(ms).key = TypeKey
         THEN (IF Head(ms).val.kind = "string" THEN Head(ms).val.str ELSE <<"?">>)
         ELSE cur)

Undefined == <<"u", "n", "d", "e", "f", "i", "n", "e", "d">>

TypeOf(v) == IF v.kind = "object" THEN MemberType(v.members, Undefined) ELSE Undefined

\* The `type` tags of the SSEEvent union.
TError == <<"e", "r", "r", "o", "r">>
TWarning == <<"w", "a", "r", "n", "i", "n", "g">>
TRunStarted == <<"r", "u", "n", "_", "s", "t", "a", "r", "t", "e", "d">>
TStepStarted == <<"s", "t", "e", "p", "_", "s", "t", "a", "r", "t", "e", "d">>
TStepCompleted == <<"s", "t", "e", "p", "_", "c", "o", "m", "p", "l", "e", "t", "e", "d">>
TRunCompleted == <<"r", "u", "n", "_", "c", "o", "m", "p", "l", "e", "t", "e", "d">>
TRetryScheduled == <<"r", "e", "t", "r", "y", "_", "s", "c", "h", "e", "d", "u", "l", "e", "d">>

SSEEventTypes ==
  {TError, TWarning, TRunStarted, TStepStarted, TStepCompleted, TRunCompleted, TRetryScheduled}

\* ------------------------------------------------------- modelled streams
PError == <<"{", "\"", "t", "y", "p", "e", "\"", ":", "\"", "e", "r", "r", "o", "r", "\"", "}">>
PBogus == <<"{", "\"", "t", "y", "p", "e", "\"", ":", "\"", "x", "\"", "}">>
PMalformed == <<"{">>
PUtf8 == <<"\"", "C3", "A9", "\"">>
PRunPassed ==
  <<"{", "\"", "t", "y", "p", "e", "\"", ":", "\"", "r", "u", "n", "_", "c", "o", "m", "p", "l", "e", "t", "e", "d", "\"", ",",
    "\"", "s", "t", "a", "t", "u", "s", "\"", ":", "\"", "p", "a", "s", "s", "e", "d", "\"", "}">>
PNull == <<"n", "u", "l", "l">>
PRunFailed ==
  <<"{", "\"", "t", "y", "p", "e", "\"", ":", "\"", "r", "u", "n", "_", "c", "o", "m", "p", "l", "e", "t", "e", "d", "\"", ",",
    "\"", "s", "t", "a", "t", "u", "s", "\"", ":", "\"", "f", "a", "i", "l", "e", "d", "\"", ",",
    "\"", "s", "u", "m", "m", "a", "r", "y", "\"", ":", "\"", "s", "1", "\"", "}">>

\* Lines a backend stream is made of (without the terminating newline).
LineTemplates ==
  { DataPrefix \o PError,             \* a known event
    DataPrefix \o PBogus \o <<"\r">>, \* parses, unrecognized type, CRLF ending
    DataPrefix \o PMalformed,         \* does not parse
    DataPrefix \o <<" ">>,            \* whitespace-only payload
    DataPrefix,                       \* empty payload
    <<>>,                             \* blank separator line
    DataPrefix \o PUtf8 }             \* parses, no type at all, two-byte character

RECURSIVE JoinLines(_)
JoinLines(ls) ==
  IF ls = <<>> THEN <<>>
  ELSE IF Len(ls) = 1 THEN ls[1]
  ELSE ls[1] \o <<NL>> \o JoinLines(Tail(ls))

\* Longer streams: a malformed line between two well-formed ones, two
\* events framed with blank separator lines, a run that completes, and a
\* null payload ahead of the completion.
ExtraLineSeqs ==
  { <<DataPrefix \o PError, DataPrefix \o PMalformed, DataPrefix \o PBogus \o <<"\r">> >>,
    <<DataPrefix \o PError, <<>>, DataPrefix \o PUtf8, <<>> >>,
    <<DataPrefix \o PRunPassed, <<>> >>,
    <<DataPrefix \o PNull, DataPrefix \o PRunPassed>>,
    <<DataPrefix \o PRunFailed, DataPrefix \o PRunPassed, <<>> >> }

LineSeqs == UNION {[1..n -> LineTemplates] : n \in 0..MaxLines} \cup ExtraLineSeqs

\* Every stream of at most MaxLines lines, with or without a final newline.
Streams == {JoinLines(ls) : ls \in LineSeqs} \cup {JoinLines(ls) \o <<NL>> : ls \in LineSeqs}

ErrorBodies == {<<>>, <<"n", "o", "p", "e">>}

Ops == {"executeTestCase", "executeSteps"}

\* ------------------------------------------------------------------ state
VARIABLES
  op,          \* which streaming method of CheckmateClient is running
  resp,        \* what fetch() gives: kind in {reject, notok, nobody, ok}, and the body bytes
  pc,          \* idle | read | yield | done | failed | returned | threw | prefailed
  pos,         \* bytes of the body already delivered by reader.read()
  dpend,       \* TextDecoder's held-back bytes
  buffer,      \* parseSSEStream's `buffer`
  pending,     \* lines of the current `for (const line of lines)` not yet visited
  phase,       \* loop | final: which yield statement the generator is suspended at
  cur,         \* the value of the current yield
  yielded,     \* every value yielded so far, in order
  events,      \* the tool handler's `events` array
  error,       \* message of the error thrown to the consumer, <<>> if none
  acquires,    \* calls of response.body.getReader()
  releases,    \* calls of reader.releaseLock()
  readStarted, \* reader.read() has been called
  cancelled,   \* reader.cancel() / body.cancel() has been called
  splitYield,  \* history: an event was yielded from a line that arrived in several chunks
  result       \* what the tool handler returned, NoResult while it runs

cvars == <<op, resp, pc, pos, dpend, buffer, pending, phase, cur, yielded, events,
           error, acquires, releases, readStarted, cancelled, splitYield, result>>

\* State of one relay request (POST /proxy/...).
VARIABLES
  rq,            \* the inbound request: endpoint, path parameter, body
  up,            \* what the upstream fetch() gives
  rpc,           \* start | fetching | pumping | finished | crashed
  upstreamCalls, \* upstream fetch() calls
  resStatus,     \* status set on the downstream response, 0 if none
  resJson,       \* payload of res.json(), NoJson if none
  jsonCalls,     \* calls of res.json()
  resHeaders,    \* headers set with res.setHeader
  flushed,       \* res.flushHeaders() has been called
  written,       \* chunks passed to res.write, in order
  endCalls,      \* calls of res.end()
  rAcquires,     \* calls of response.body.getReader()
  rpos,          \* upstream chunks read by pump
  listener,      \* req.on("close") is registered
  closed,        \* the downstream connection has closed
  rcancelled,    \* reader.cancel() has been called
  escaped,       \* an exception escaped the handler
  closedAt       \* history: chunks written when the downstream closed during streaming, -1 if it did not

rvars == <<rq, up, rpc, upstreamCalls, resStatus, resJson, jsonCalls, resHeaders, flushed,
           written, endCalls, rAcquires, rpos, listener, closed, rcancelled, escaped, closedAt>>

\* State of the test-runner view (ui-src/test-runner.ts).
VARIABLES
  fpc,           \* idle | folding: inside the events.forEach of processToolResult or not
  steps,         \* the `steps` Map, its entries in insertion order
  stepsList,     \* the rendered steps (innerHTML of #steps)
  summary,       \* the #summary element: hidden, or its class and counters
  errorShown,    \* the #error element is displayed
  loadingShown,  \* the #loading element is displayed
  containerShown,\* the #steps-container element is displayed
  testName,      \* text of #test-name
  matched,       \* history: events of the one-step passing run folded since the last clear, -1 if off it
  completedSeen, \* history: a run_completed event was folded from the current result
  retryPending,  \* history: the last event folded was retry_scheduled
  noticeLast,    \* history: the last event folded was an error or a warning
  frozen         \* history: step numbers of the attempt a retry has superseded

fvars == <<fpc, steps, stepsList, summary, errorShown, loadingShown, containerShown,
           testName, matched, completedSeen, retryPending, noticeLast, frozen>>

\* State of two proxy requests in progress at the same time.
VARIABLES
  hs,            \* per request: the handler invocation's locals and its `res`
  ups            \* per request: the upstream response its fetch() resolves with

pvars == <<hs, ups>>

vars == <<cvars, rvars, fvars, pvars>>

NoEvent == [kind |-> "none"]

NoResult == [kind |-> "none"]

NoJson == [error |-> <<>>, details |-> FALSE]

NoRequest == [endpoint |-> "none"]

NoUpstream == [kind |-> "none"]

SummaryHidden == [shown |-> FALSE]

\* The page as loaded, before any tool result: `steps` is empty, the loading
\* indicator shows.
FoldStart ==
  /\ steps = <<>>
  /\ stepsList = <<>>
  /\ summary = SummaryHidden
  /\ errorShown = FALSE
  /\ loadingShown = TRUE
  /\ containerShown = FALSE
  /\ testName = ""
  /\ matched = -1
  /\ completedSeen = FALSE
  /\ retryPending = FALSE
  /\ noticeLast = FALSE
  /\ frozen = {}

\* The view is not in use.
FoldIdle == fpc = "unused" /\ FoldStart

\* No pair of concurrent requests is in progress.
PairIdle == hs = <<>> /\ ups = <<>>

\* No relay request is in progress.
RelayIdle ==
  /\ rq = NoRequest
  /\ up = NoUpstream
  /\ rpc = "unused"
  /\ upstreamCalls = 0
  /\ resStatus = 0
  /\ resJson = NoJson
  /\ jsonCalls = 0
  /\ resHeaders = {}
  /\ flushed = FALSE
  /\ written = <<>>
  /\ endCalls = 0
  /\ rAcquires = 0
  /\ rpos = 0
  /\ listener = FALSE
  /\ closed = FALSE
  /\ rcancelled = FALSE
  /\ escaped = FALSE
  /\ closedAt = -1

Init ==
  /\ RelayIdle
  /\ FoldIdle
  /\ PairIdle
  /\ op \in Ops
  /\ resp \in [kind : {"reject"}, body : {<<>>}]
         \cup [kind : {"notok"}, body : ErrorBodies]
         \cup [kind : {"nobody"}, body : {<<>>}]
         \cup [kind : {"ok"}, body : Streams]
  /\ pc = "idle"
  /\ pos = 0
  /\ dpend = <<>>
  /\ buffer = <<>>
  /\ pending = <<>>
  /\ phase = "loop"
  /\ cur = NoEvent
  /\ yielded = <<>>
  /\ events = <<>>
  /\ error = <<>>
  /\ acquires = 0
  /\ releases = 0
  /\ readStarted = FALSE
  /\ cancelled = FALSE
  /\ splitYield = FALSE
  /\ result = NoResult

\* ---------------------------------------------------------- parseSSEStream
NoYield == [yields |-> FALSE]

\* A line handler without the try/catch: a payload that does not parse
\* reaches the consumer as the SyntaxError.
LineEventNoCatch(line) ==
  IF StartsWith(line, DataPrefix)
  THEN LET data == Trim(Slice(line, PrefixLen)) IN
       IF data # <<>>
       THEN LET r == JSONParse(data) IN
            IF r.ok THEN [yields |-> TRUE, event |-> r.val]
            ELSE [yields |-> TRUE, event |-> [kind |-> "SyntaxError"]]
       ELSE NoYield
  ELSE NoYield

\* A line handler that reports a data line without payload as a null event.
LineEventBlankYields(line) ==
  IF StartsWith(line, DataPrefix)
  THEN LET data == Trim(Slice(line, PrefixLen)) IN
       IF data # <<>>
       THEN LET r == JSONParse(data) IN
            IF r.ok THEN [yields |-> TRUE, event |-> r.val] ELSE NoYield
       ELSE [yields |-> TRUE, event |-> [kind |-> "null"]]
  ELSE NoYield

\* The body of the line loop, and of the final-buffer handling: the value
\* yielded for one line, if any.
LineEvent(line) ==
  IF StartsWith(line, DataPrefix)
  THEN LET data == Trim(Slice(line, PrefixLen)) IN
       IF data # <<>>
       THEN LET r == JSONParse(data) IN
            IF r.ok THEN [yields |-> TRUE, event |-> r.val] ELSE NoYield
       ELSE NoYield
  ELSE NoYield

\* `for (const line of lines)` run up to its next yield.
RECURSIVE RunLines(_)
RunLines(ls) ==
  IF ls = <<>> THEN [yields |-> FALSE, rest |-> <<>>]
  ELSE LET e == LineEvent(Head(ls)) IN
       IF e.yields THEN [yields |-> TRUE, event |-> e.event, rest |-> Tail(ls)]
       ELSE RunLines(Tail(ls))

\* The error message of a failed exchange.
FailPrefix(o) ==
  IF o = "executeTestCase" THEN "Failed to execute test case: " ELSE "Failed to execute steps: "

\* An exit path that does not release the lock.
FinallyMissing == releases' = releases

\* `finally { reader.releaseLock(); }`
Finally == releases' = releases + 1

\* A buffer that keeps the whole text.
PopLastKeepsText(lines) == JoinLines(lines)

\* A buffer that forgets the incomplete line.
PopLastDropped(lines) == <<>>

\* `lines.pop() || ""`: the text after the last newline stays in the buffer.
PopLast(lines) == lines[Len(lines)]

\* An array that takes new elements at the front.
PushFront(arr, e) == <<e>> \o arr

\* events.push(event)
Push(arr, e) == Append(arr, e)

\* The generator suspends at a yield of the line loop, or goes back to read.
ContinueLoop(ls) ==
  LET r == RunLines(ls) IN
  IF r.yields
  THEN /\ pc' = "yield"
       /\ phase' = "loop"
       /\ cur' = r.event
       /\ pending' = r.rest
       /\ yielded' = Append(yielded, r.event)
  ELSE /\ pc' = "read"
       /\ phase' = "loop"
       /\ cur' = NoEvent
       /\ pending' = <<>>
       /\ yielded' = yielded

\* A response whose status check is skipped.
ResponseOkUnchecked(r) == TRUE

\* response.ok
ResponseOk(r) == r.kind # "notok"

\* A body that is assumed to be present.
HasBodyAssumed(r) == TRUE

\* response.body is not null, so that response.body?.getReader() is a reader
HasBody(r) == r.kind # "nobody"

StatusKey == <<"s", "t", "a", "t", "u", "s">>

JsUndefined == [kind |-> "undefined"]

\* obj[key] of a parsed object: the last member under the key wins.
RECURSIVE MemberOf(_, _, _)
MemberOf(ms, key, found) ==
  IF ms = <<>> THEN found
  ELSE MemberOf(Tail(ms), key, IF Head(ms).key = key THEN Head(ms).val ELSE found)

SummaryKey == <<"s", "u", "m", "m", "a", "r", "y">>

\* A search that keeps the last run_completed of the array.
RECURSIVE FindCompletedLast(_)
FindCompletedLast(evs) ==
  IF evs = <<>> THEN [threw |-> FALSE, found |-> FALSE]
  ELSE IF evs[Len(evs)].kind = "null" THEN [threw |-> TRUE, found |-> FALSE]
  ELSE IF TypeOf(evs[Len(evs)]) = TRunCompleted
       THEN [threw |-> FALSE, found |-> TRUE, event |-> evs[Len(evs)]]
  ELSE FindCompletedLast(SubSeq(evs, 1, Len(evs) - 1))

\* events.find((e) => e.type === "run_completed"): reading `type` of null
\* throws a TypeError.
RECURSIVE FindCompleted(_)
FindCompleted(evs) ==
  IF evs = <<>> THEN [threw |-> FALSE, found |-> FALSE]
  ELSE IF Head(evs).kind = "null" THEN [threw |-> TRUE, found |-> FALSE]
  ELSE IF TypeOf(Head(evs)) = TRunCompleted
       THEN [threw |-> FALSE, found |-> TRUE, event |-> Head(evs)]
  ELSE FindCompleted(Tail(evs))

\* An error result that reports the events collected before the failure.
ErrorResultPartial(message, evs) ==
  LET c == FindCompleted(evs) IN
  [kind |-> "error", error |-> message, events |-> evs,
   status |-> IF c.found THEN MemberOf(c.event.members, StatusKey, JsUndefined) ELSE JsUndefined]

\* A catch block that throws the error on: the handler returns nothing.
ErrorResultRethrown(message, evs) == NoResult

\* The catch block of the tool handler: structuredContent is
\* { error: message, events: [] }.
ErrorResult(message, evs) == [kind |-> "error", error |-> message, events |-> <<>>]

\* The tool handler after its `for await` loop has ended.
ToolResult(evs) ==
  LET c == FindCompleted(evs) IN
  IF c.threw THEN ErrorResult(<<"Cannot read properties of null (reading 'type')">>, evs)
  ELSE [kind |-> "ok", events |-> evs,
        status |-> IF c.found THEN MemberOf(c.event.members, StatusKey, JsUndefined)
                   ELSE [kind |-> "string", str |-> <<"u", "n", "k", "n", "o", "w", "n">>],
        summary |-> IF c.found THEN MemberOf(c.event.members, SummaryKey, JsUndefined)
                    ELSE [kind |-> "string", str |-> <<"Test completed">>]]

\* client.getTestCase (run_test) or client.buildTest (run_natural_test)
\* rejects: the handler fails before it opens the stream.
LookupFails ==
  /\ pc = "idle"
  /\ pc' = "prefailed"
  /\ error' = <<"lookup failed">>
  /\ result' = ErrorResult(error', events)
  /\ UNCHANGED <<op, resp, pos, dpend, buffer, pending, phase, cur, yielded, events,
                 acquires, releases, readStarted, cancelled, splitYield>>
  /\ UNCHANGED <<rvars, fvars, pvars>>

\* First next() of the consumer: fetch, the status check, then the head of
\* parseSSEStream (getReader, or `No response body`).
Call ==
  /\ pc = "idle"
  /\ IF resp.kind = "reject"
     THEN /\ pc' = "failed"
          /\ error' = <<"fetch failed">>
          /\ UNCHANGED acquires
     ELSE IF ~ResponseOk(resp)
     THEN /\ pc' = "failed"
          /\ error' = <<FailPrefix(op), resp.body>>
          /\ UNCHANGED acquires
     ELSE IF ~HasBody(resp)
     THEN /\ pc' = "failed"
          /\ error' = <<"No response body">>
          /\ UNCHANGED acquires
     ELSE /\ pc' = "read"
          /\ acquires' = acquires + 1
          /\ UNCHANGED error
  /\ UNCHANGED <<op, resp, pos, dpend, buffer, pending, phase, cur, yielded, events,
                 releases, readStarted, cancelled, splitYield>>
  /\ result' = IF pc' = "failed" THEN ErrorResult(error', events) ELSE result
  /\ UNCHANGED <<rvars, fvars, pvars>>

\* A line loop that also visits the incomplete last line.
PoppedNothing(lines) == lines

\* `lines` after lines.pop(): the lines that a newline has ended.
Popped(lines) == SubSeq(lines, 1, Len(lines) - 1)

\* reader.read() resolves with a chunk of k bytes.
ReadChunk(k) ==
  /\ pc = "read"
  /\ k \in 0..(Len(resp.body) - pos)
  /\ LET d == DecodeStream(dpend, SubSeq(resp.body, pos + 1, pos + k))
         lines == Split(buffer \o d.text)
     IN /\ dpend' = d.pend
        /\ buffer' = PopLast(lines)
        /\ ContinueLoop(Popped(lines))
        /\ splitYield' = (splitYield \/ (buffer # <<>> /\ Len(lines) >= 2 /\ LineEvent(lines[1]).yields))
  /\ pos' = pos + k
  /\ readStarted' = TRUE
  /\ UNCHANGED <<op, resp, events, error, acquires, releases, cancelled, result>>
  /\ UNCHANGED <<rvars, fvars, pvars>>

\* A stream end that forgets the buffer.
FinalEventSkipped(buf) == NoYield

\* `if (buffer.startsWith("data: ")) { ... }` after the read loop: the rest
\* of the buffer is handled as one more line.
FinalEvent(buf) == LineEvent(buf)

\* reader.read() resolves with done: the final-buffer handling.
ReadDone ==
  /\ pc = "read"
  /\ pos = Len(resp.body)
  /\ readStarted' = TRUE
  /\ LET e == FinalEvent(buffer) IN
     IF e.yields
     THEN /\ pc' = "yield"
          /\ phase' = "final"
          /\ cur' = e.event
          /\ yielded' = Append(yielded, e.event)
          /\ UNCHANGED <<releases, result>>
     ELSE /\ pc' = "done"
          /\ Finally
          /\ result' = ToolResult(events)
          /\ UNCHANGED <<phase, cur, yielded>>
  /\ UNCHANGED <<op, resp, pos, dpend, buffer, pending, events, error, acquires, cancelled,
                 splitYield>>
  /\ UNCHANGED <<rvars, fvars, pvars>>

\* reader.read() rejects: the connection dropped mid-stream.
ReadFail ==
  /\ pc = "read"
  /\ readStarted' = TRUE
  /\ pc' = "failed"
  /\ error' = <<"terminated">>
  /\ result' = ErrorResult(error', events)
  /\ Finally
  /\ UNCHANGED <<op, resp, pos, dpend, buffer, pending, phase, cur, yielded, events,
                 acquires, cancelled, splitYield>>
  /\ UNCHANGED <<rvars, fvars, pvars>>

\* The consumer's loop body reads event.type for its log line before the
\* push: a null event throws a TypeError there. The loop is left, return()
\* runs the generator's finally, and the handler's catch block answers.
ToolThrows ==
  /\ pc = "yield"
  /\ cur.kind = "null"
  /\ pc' = "threw"
  /\ cur' = NoEvent
  /\ error' = <<"Cannot read properties of null (reading 'type')">>
  /\ result' = ErrorResult(error', events)
  /\ Finally
  /\ UNCHANGED <<op, resp, pos, dpend, buffer, pending, phase, yielded, events,
                 acquires, readStarted, cancelled, splitYield>>
  /\ UNCHANGED <<rvars, fvars, pvars>>

\* The consumer's loop body (events.push(event)) and its next().
Resume ==
  /\ pc = "yield"
  /\ cur.kind # "null"
  /\ events' = Push(events, cur)
  /\ IF phase = "loop"
     THEN /\ ContinueLoop(pending)
          /\ UNCHANGED <<releases, result>>
     ELSE /\ pc' = "done"
          /\ cur' = NoEvent
          /\ Finally
          /\ result' = ToolResult(events')
          /\ UNCHANGED <<phase, pending, yielded>>
  /\ UNCHANGED <<op, resp, pos, dpend, buffer, error, acquires, readStarted, cancelled,
                 splitYield>>
  /\ UNCHANGED <<rvars, fvars, pvars>>

\* The consumer leaves its loop early: return() on the suspended generator.
Abandon ==
  /\ pc = "yield"
  /\ pc' = "returned"
  /\ Finally
  /\ UNCHANGED <<op, resp, pos, dpend, buffer, pending, phase, cur, yielded, events,
                 error, acquires, readStarted, cancelled, splitYield, result>>
  /\ UNCHANGED <<rvars, fvars, pvars>>

\* reader.read() resolves with a chunk of any size the transport chooses.
Read == \E k \in 0..Len(resp.body) : ReadChunk(k)

Next ==
  \/ LookupFails
  \/ Call
  \/ Read
  \/ ReadDone
  \/ ReadFail
  \/ Resume
  \/ ToolThrows
  \/ Abandon

Spec == Init /\ [][Next]_vars

\* ------------------------------------------------------------------ relay
MaxChunks == 2

DigitVal(c) ==
  CASE c = "0" -> 0 [] c = "1" -> 1 [] c = "2" -> 2 [] c = "3" -> 3 [] c = "4" -> 4
    [] c = "5" -> 5 [] c = "6" -> 6 [] c = "7" -> 7 [] c = "8" -> 8 [] c = "9" -> 9

RECURSIVE DigitRun(_, _, _)
DigitRun(s, n, acc) ==
  IF s # <<>> /\ Head(s) \in Digits THEN DigitRun(Tail(s), n + 1, acc * 10 + DigitVal(Head(s)))
  ELSE [count |-> n, val |-> acc]

\* parseInt(text, 10)
ParseInt(text) ==
  LET t == TrimStart(text)
      neg == t # <<>> /\ Head(t) = "-"
      u == IF t # <<>> /\ Head(t) \in {"-", "+"} THEN Tail(t) ELSE t
      d == DigitRun(u, 0, 0)
  IN IF d.count = 0 THEN [nan |-> TRUE, val |-> 0]
     ELSE [nan |-> FALSE, val |-> IF neg THEN 0 - d.val ELSE d.val]

BrowserEnum ==
  {"chromium", "chromium-headless", "firefox", "firefox-headless", "webkit", "webkit-headless"}

\* browserSchema: z.enum([...]).optional()
BrowserSchema(b) == b = "undefined" \/ b \in BrowserEnum

\* testCaseRunSchema.safeParse(req.body).success
TestCaseRunSchema(body) == BrowserSchema(body.browser)

\* executeStepsSchema.safeParse(req.body).success
ExecuteStepsSchema(body) ==
  /\ body.project_id > 0
  /\ Len(body.steps) >= 1
  /\ BrowserSchema(body.browser)
  /\ body.fixture_ids.present => \A i \in 1..Len(body.fixture_ids.ids) : body.fixture_ids.ids[i] > 0

ParamTexts == {<<"7">>, <<"0">>, <<"-", "1">>, <<"a">>, <<"2", "x">>}

BrowserInputs == {"undefined", "firefox", "opera"}

TestCaseRequests ==
  [endpoint : {"testCase"}, param : ParamTexts, body : [browser : BrowserInputs]]

ExecuteRequests ==
  [endpoint : {"executeSteps"}, param : {<<>>},
   body : [project_id : {0, 1}, steps : {<<>>, <<"click">>}, browser : BrowserInputs,
           fixture_ids : {[present |-> FALSE, ids |-> <<>>], [present |-> TRUE, ids |-> <<1>>],
                          [present |-> TRUE, ids |-> <<0>>]}]]

ChunkSeqs == UNION {[1..n -> {"a", "b"}] : n \in 0..MaxChunks}

Upstreams ==
  [kind : {"reject"}, status : {0}, statusText : {""}, body : {""}, chunks : {<<>>}]
  \cup [kind : {"notok"}, status : {404, 503}, statusText : {"Not Found", ""},
        body : {"", "{\"detail\":\"gone\"}"}, chunks : {<<>>}]
  \cup [kind : {"nobody"}, status : {200}, statusText : {"OK"}, body : {""}, chunks : {<<>>}]
  \cup [kind : {"ok"}, status : {200}, statusText : {"OK"}, body : {""}, chunks : ChunkSeqs]

\* No client exchange is in progress.
ClientIdle ==
  /\ op = "executeTestCase"
  /\ resp = [kind |-> "reject", body |-> <<>>]
  /\ pc = "unused"
  /\ pos = 0
  /\ dpend = <<>>
  /\ buffer = <<>>
  /\ pending = <<>>
  /\ phase = "loop"
  /\ cur = NoEvent
  /\ yielded = <<>>
  /\ events = <<>>
  /\ error = <<>>
  /\ acquires = 0
  /\ releases = 0
  /\ readStarted = FALSE
  /\ cancelled = FALSE
  /\ splitYield = FALSE
  /\ result = NoResult

InitRelay ==
  /\ FoldIdle
  /\ ClientIdle
  /\ PairIdle
  /\ rq \in TestCaseRequests \cup ExecuteRequests
  /\ up \in Upstreams
  /\ rpc = "start"
  /\ upstreamCalls = 0
  /\ resStatus = 0
  /\ resJson = NoJson
  /\ jsonCalls = 0
  /\ resHeaders = {}
  /\ flushed = FALSE
  /\ written = <<>>
  /\ endCalls = 0
  /\ rAcquires = 0
  /\ rpos = 0
  /\ listener = FALSE
  /\ closed = FALSE
  /\ rcancelled = FALSE
  /\ escaped = FALSE
  /\ closedAt = -1

\* res.status(code).json(payload) on a response whose headers are not sent.
SendJson(code, payload) ==
  /\ resStatus' = code
  /\ resJson' = payload
  /\ jsonCalls' = jsonCalls + 1

\* The upstream fetch() is started.
StartFetch ==
  /\ rpc' = "fetching"
  /\ upstreamCalls' = upstreamCalls + 1
  /\ UNCHANGED <<resStatus, resJson, jsonCalls>>

\* The request is answered with 400 before any upstream call.
Reject400(payload) ==
  /\ SendJson(400, payload)
  /\ rpc' = "finished"
  /\ UNCHANGED upstreamCalls

\* POST /proxy/test-cases/:testCaseId/runs/stream, up to `await fetch`.
HandleTestCase ==
  /\ rpc = "start"
  /\ rq.endpoint = "testCase"
  /\ LET testCaseId == ParseInt(rq.param) IN
     IF testCaseId.nan \/ testCaseId.val <= 0
     THEN Reject400([error |-> <<"Invalid testCaseId: must be a positive integer">>, details |-> FALSE])
     ELSE IF ~TestCaseRunSchema(rq.body)
     THEN Reject400([error |-> <<"Invalid request body">>, details |-> TRUE])
     ELSE StartFetch
  /\ UNCHANGED <<rq, up, resHeaders, flushed, written, endCalls, rAcquires, rpos, listener,
                 closed, rcancelled, escaped, closedAt>>
  /\ UNCHANGED <<cvars, fvars, pvars>>

\* POST /proxy/test-runs/execute/stream, up to `await fetch`.
HandleExecuteSteps ==
  /\ rpc = "start"
  /\ rq.endpoint = "executeSteps"
  /\ IF ~ExecuteStepsSchema(rq.body)
     THEN Reject400([error |-> <<"Invalid request body">>, details |-> TRUE])
     ELSE StartFetch
  /\ UNCHANGED <<rq, up, resHeaders, flushed, written, endCalls, rAcquires, rpos, listener,
                 closed, rcancelled, escaped, closedAt>>
  /\ UNCHANGED <<cvars, fvars, pvars>>

\* fetch() rejects: the catch block answers 500 with the error's message.
UpstreamReject ==
  /\ rpc = "fetching"
  /\ up.kind = "reject"
  /\ SendJson(500, [error |-> <<"fetch failed">>, details |-> FALSE])
  /\ rpc' = "finished"
  /\ UNCHANGED <<rq, up, upstreamCalls, resHeaders, flushed, written, endCalls, rAcquires, rpos,
                 listener, closed, rcancelled, escaped, closedAt>>
  /\ UNCHANGED <<cvars, fvars, pvars>>

\* A payload that forwards the upstream response body.
UpstreamErrorPayloadBody(r) ==
  [error |-> <<"Checkmate API error: ", r.body>>, details |-> FALSE]

\* The payload of the answer to a non-success upstream response.
UpstreamErrorPayload(r) ==
  [error |-> <<"Checkmate API error: ", r.statusText>>, details |-> FALSE]

\* `if (!response.ok)`: one JSON answer with the upstream status, then return.
UpstreamNotOk ==
  /\ rpc = "fetching"
  /\ up.kind = "notok"
  /\ SendJson(up.status, UpstreamErrorPayload(up))
  /\ rpc' = "finished"
  /\ UNCHANGED <<rq, up, upstreamCalls, resHeaders, flushed, written, endCalls, rAcquires, rpos,
                 listener, closed, rcancelled, escaped, closedAt>>
  /\ UNCHANGED <<cvars, fvars, pvars>>

SseHeaders == {<<"Content-Type", "text/event-stream">>, <<"Cache-Control", "no-cache">>,
               <<"Connection", "keep-alive">>}

\* Headers left to be sent with the first write.
FlushHeadersSkipped(f) == f

\* res.flushHeaders()
FlushHeaders(f) == TRUE

\* A response that is ended twice.
ResEndTwice(n) == n + 2

\* res.end(): one more completion of the downstream response.
ResEnd(n) == n + 1

\* A success response without a body: headers, then res.end().
UpstreamNoBody ==
  /\ rpc = "fetching"
  /\ up.kind = "nobody"
  /\ resHeaders' = SseHeaders
  /\ flushed' = FlushHeaders(flushed)
  /\ endCalls' = ResEnd(endCalls)
  /\ rpc' = "finished"
  /\ UNCHANGED <<rq, up, upstreamCalls, resStatus, resJson, jsonCalls, written, rAcquires, rpos,
                 listener, closed, rcancelled, escaped, closedAt>>
  /\ UNCHANGED <<cvars, fvars, pvars>>

\* A success response: headers, getReader(), req.on("close"), and pump() up
\* to its first `await reader.read()`.
UpstreamOk ==
  /\ rpc = "fetching"
  /\ up.kind = "ok"
  /\ resHeaders' = SseHeaders
  /\ flushed' = FlushHeaders(flushed)
  /\ rAcquires' = rAcquires + 1
  /\ listener' = TRUE
  /\ rpc' = "pumping"
  /\ UNCHANGED <<rq, up, upstreamCalls, resStatus, resJson, jsonCalls, written, endCalls, rpos,
                 closed, rcancelled, escaped, closedAt>>
  /\ UNCHANGED <<cvars, fvars, pvars>>

\* A write that is lost.
ResWriteDropped(w, value) == w

\* res.write(value)
ResWrite(w, value) == Append(w, value)

\* pump: reader.read() gives a chunk, res.write(value).
PumpChunk ==
  /\ rpc = "pumping"
  /\ ~rcancelled
  /\ rpos < Len(up.chunks)
  /\ written' = ResWrite(written, up.chunks[rpos + 1])
  /\ rpos' = rpos + 1
  /\ UNCHANGED <<rq, up, rpc, upstreamCalls, resStatus, resJson, jsonCalls, resHeaders, flushed,
                 endCalls, rAcquires, listener, closed, rcancelled, escaped, closedAt>>
  /\ UNCHANGED <<cvars, fvars, pvars>>

\* pump: reader.read() gives done (end of stream, or the reader was
\* cancelled), res.end().
PumpDone ==
  /\ rpc = "pumping"
  /\ rcancelled \/ rpos = Len(up.chunks)
  /\ endCalls' = ResEnd(endCalls)
  /\ rpc' = "finished"
  /\ UNCHANGED <<rq, up, upstreamCalls, resStatus, resJson, jsonCalls, resHeaders, flushed,
                 written, rAcquires, rpos, listener, closed, rcancelled, escaped, closedAt>>
  /\ UNCHANGED <<cvars, fvars, pvars>>

\* pump: reader.read() rejects. The catch block calls res.status(500).json()
\* on a response whose headers are sent, which throws out of the handler.
PumpFail ==
  /\ rpc = "pumping"
  /\ ~rcancelled
  /\ resStatus' = 500
  /\ jsonCalls' = jsonCalls + 1
  /\ escaped' = TRUE
  /\ rpc' = "crashed"
  /\ UNCHANGED <<rq, up, upstreamCalls, resJson, resHeaders, flushed, written, endCalls,
                 rAcquires, rpos, listener, closed, rcancelled, closedAt>>
  /\ UNCHANGED <<cvars, fvars, pvars>>

\* A close listener that does not reach the reader.
OnCloseIgnored(registered) == FALSE

\* req.on("close", () => { reader.cancel(); }): the reader is cancelled if
\* the listener is registered when the downstream closes.
OnClose(registered) == registered

\* The downstream client goes away; a registered close listener cancels the
\* reader.
Disconnect ==
  /\ rpc \in {"fetching", "pumping"}
  /\ ~closed
  /\ closed' = TRUE
  /\ rcancelled' = OnClose(listener)
  /\ closedAt' = IF rpc = "pumping" THEN Len(written) ELSE -1
  /\ UNCHANGED <<rq, up, rpc, upstreamCalls, resStatus, resJson, jsonCalls, resHeaders, flushed,
                 written, endCalls, rAcquires, rpos, listener, escaped>>
  /\ UNCHANGED <<cvars, fvars, pvars>>

NextRelay ==
  \/ HandleTestCase
  \/ HandleExecuteSteps
  \/ UpstreamReject
  \/ UpstreamNotOk
  \/ UpstreamNoBody
  \/ UpstreamOk
  \/ PumpChunk
  \/ PumpDone
  \/ PumpFail
  \/ Disconnect

SpecRelay == InitRelay /\ [][NextRelay]_vars

\* A cancelled reader resolves the pending read with done, and the pump's
\* continuation runs: an enabled end of the pump is eventually taken.
SpecRelayLive == SpecRelay /\ WF_vars(PumpDone)

\* ------------------------------------------- two proxy requests at a time
MaxPairChunks == 2

Requests == {1, 2}

\* The n-th chunk of the upstream response of request j.
UpChunk(j, n) == [up |-> j, n |-> n]

\* What the fetch() of request j can resolve with.
UpResponses(j) ==
  [kind : {"reject"}, status : {0}, chunks : {<<>>}, pos : {0}, cancelled : {FALSE}]
  \cup [kind : {"notok"}, status : {503}, chunks : {<<>>}, pos : {0}, cancelled : {FALSE}]
  \cup [kind : {"nobody"}, status : {200}, chunks : {<<>>}, pos : {0}, cancelled : {FALSE}]
  \cup [kind : {"ok"}, status : {200}, pos : {0}, cancelled : {FALSE},
        chunks : {[k \in 1..n |-> UpChunk(j, k)] : n \in 0..MaxPairChunks}]

\* A handler invocation that has not run yet; `reader` is 0 until getReader().
NewHandler(v) ==
  [rpc |-> "start", valid |-> v, reader |-> 0, listener |-> FALSE, closed |-> FALSE,
   flushed |-> FALSE, written |-> <<>>, endCalls |-> 0, jsonCalls |-> 0, status |-> 0]

\* One reader variable that every handler invocation uses.
ReaderShared(i) == 1

\* `const reader = response.body?.getReader()`: a local of the invocation,
\* on the response of its own fetch().
ReaderOf(i) == i

\* Request i up to `await fetch`: a 400 answer, or the upstream call.
PairHandle(i) ==
  /\ hs[i].rpc = "start"
  /\ hs' = [hs EXCEPT ![i] =
              IF hs[i].valid THEN [@ EXCEPT !.rpc = "fetching"]
              ELSE [@ EXCEPT !.rpc = "finished", !.status = 400, !.jsonCalls = @ + 1]]
  /\ UNCHANGED ups
  /\ UNCHANGED <<cvars, rvars, fvars>>

\* fetch() of request i rejects: the catch block answers 500.
PairReject(i) ==
  /\ hs[i].rpc = "fetching"
  /\ ups[i].kind = "reject"
  /\ hs' = [hs EXCEPT ![i] = [@ EXCEPT !.rpc = "finished", !.status = 500, !.jsonCalls = @ + 1]]
  /\ UNCHANGED ups
  /\ UNCHANGED <<cvars, rvars, fvars>>

\* `if (!response.ok)` of request i: one JSON answer, then return.
PairNotOk(i) ==
  /\ hs[i].rpc = "fetching"
  /\ ups[i].kind = "notok"
  /\ hs' = [hs EXCEPT ![i] = [@ EXCEPT !.rpc = "finished", !.status = ups[i].status, !.jsonCalls = @ + 1]]
  /\ UNCHANGED ups
  /\ UNCHANGED <<cvars, rvars, fvars>>

\* A success response without a body for request i: headers, res.end().
PairNoBody(i) ==
  /\ hs[i].rpc = "fetching"
  /\ ups[i].kind = "nobody"
  /\ hs' = [hs EXCEPT ![i] = [@ EXCEPT !.rpc = "finished", !.flushed = FlushHeaders(@),
                                        !.endCalls = ResEnd(@)]]
  /\ UNCHANGED ups
  /\ UNCHANGED <<cvars, rvars, fvars>>

\* A success response for request i: headers, getReader(), req.on("close"),
\* and pump() up to its first `await reader.read()`.
PairOk(i) ==
  /\ hs[i].rpc = "fetching"
  /\ ups[i].kind = "ok"
  /\ hs' = [hs EXCEPT ![i] = [@ EXCEPT !.rpc = "pumping", !.flushed = FlushHeaders(@),
                                        !.reader = ReaderOf(i), !.listener = TRUE]]
  /\ UNCHANGED ups
  /\ UNCHANGED <<cvars, rvars, fvars>>

\* pump of request i: reader.read() gives a chunk, res.write(value).
PairChunk(i) ==
  /\ hs[i].rpc = "pumping"
  /\ LET r == hs[i].reader IN
     /\ ~ups[r].cancelled
     /\ ups[r].pos < Len(ups[r].chunks)
     /\ hs' = [hs EXCEPT ![i].written = ResWrite(@, ups[r].chunks[ups[r].pos + 1])]
     /\ ups' = [ups EXCEPT ![r].pos = @ + 1]
  /\ UNCHANGED <<cvars, rvars, fvars>>

\* pump of request i: reader.read() gives done, res.end().
PairDone(i) ==
  /\ hs[i].rpc = "pumping"
  /\ LET r == hs[i].reader IN ups[r].cancelled \/ ups[r].pos = Len(ups[r].chunks)
  /\ hs' = [hs EXCEPT ![i] = [@ EXCEPT !.rpc = "finished", !.endCalls = ResEnd(@)]]
  /\ UNCHANGED ups
  /\ UNCHANGED <<cvars, rvars, fvars>>

\* pump of request i: reader.read() rejects; the catch block's res.json()
\* throws on the sent headers.
PairFail(i) ==
  /\ hs[i].rpc = "pumping"
  /\ ~ups[hs[i].reader].cancelled
  /\ hs' = [hs EXCEPT ![i] = [@ EXCEPT !.rpc = "crashed", !.status = 500, !.jsonCalls = @ + 1]]
  /\ UNCHANGED ups
  /\ UNCHANGED <<cvars, rvars, fvars>>

\* The downstream client of request i goes away; a registered close
\* listener cancels the reader of that invocation.
PairDisconnect(i) ==
  /\ hs[i].rpc \in {"fetching", "pumping"}
  /\ ~hs[i].closed
  /\ hs' = [hs EXCEPT ![i].closed = TRUE]
  /\ ups' = IF OnClose(hs[i].listener)
            THEN [ups EXCEPT ![hs[i].reader].cancelled = TRUE]
            ELSE ups
  /\ UNCHANGED <<cvars, rvars, fvars>>

InitPair ==
  /\ ClientIdle
  /\ RelayIdle
  /\ FoldIdle
  /\ hs \in [Requests -> {NewHandler(v) : v \in BOOLEAN}]
  /\ ups \in {u \in [Requests -> UNION {UpResponses(j) : j \in Requests}] :
                \A j \in Requests : u[j] \in UpResponses(j)}

NextPair ==
  \E i \in Requests :
    \/ PairHandle(i)
    \/ PairReject(i)
    \/ PairNotOk(i)
    \/ PairNoBody(i)
    \/ PairOk(i)
    \/ PairChunk(i)
    \/ PairDone(i)
    \/ PairFail(i)
    \/ PairDisconnect(i)

SpecPair == InitPair /\ [][NextPair]_vars

\* ============================================== ui-src/test-runner.ts view
\* event.step_number values; 0 is falsy, as is a missing step_number.
StepNumbers == {0, 1, 2}

\* event.action and event.status as they arrive, and the event.duration of
\* a completed step.
ActionInputs == {"undefined", "click"}

StatusInputs == {"undefined", "passed", "failed", "skipped"}

DurationInputs == {7}

\* data.testCase?.name and data.error of a tool result.
NameInputs == {"undefined", "Login"}

NoFields == [type |-> "none", step_number |-> 0, action |-> "undefined", status |-> "undefined", duration |-> 0]

\* The events of a result's `events` array.
FoldEvents ==
  {[NoFields EXCEPT !.type = t] : t \in {"run_started", "error", "warning", "retry_scheduled"}}
  \cup {[NoFields EXCEPT !.type = "step_started", !.step_number = n, !.action = a] :
          n \in StepNumbers, a \in ActionInputs}
  \cup {[NoFields EXCEPT !.type = "step_completed", !.step_number = n, !.status = st, !.duration = d] :
          n \in StepNumbers, st \in StatusInputs, d \in DurationInputs}
  \cup {[NoFields EXCEPT !.type = "run_completed", !.status = st] : st \in {"passed", "failed"}}

\* steps.has(n)
MapHas(m, n) == \E i \in 1..Len(m) : m[i].number = n

\* steps.get(n), for a key the Map has
MapGet(m, n) == m[CHOOSE i \in 1..Len(m) : m[i].number = n]

\* steps.set(n, st): a new key goes last, an existing key keeps its place.
MapSet(m, n, st) ==
  IF MapHas(m, n)
  THEN [i \in 1..Len(m) |-> IF m[i].number = n THEN st ELSE m[i]]
  ELSE Append(m, st)

\* x || d
OrElse(x, d) == IF x = "undefined" THEN d ELSE x

\* The StepState that step_started stores.
StartedStep(e) ==
  [number |-> e.step_number, action |-> OrElse(e.action, "unknown"), status |-> "running",
   duration |-> 0]

\* A completion that leaves the step as it was.
CompletedStepIgnored(step, e) == step

\* The fields step_completed assigns to the StepState it found.
CompletedStep(step, e) ==
  [step EXCEPT !.status = OrElse(e.status, "passed"), !.duration = e.duration]

\* A list left in the Map's insertion order.
SortedStepsUnsorted(m) == m

\* Array.from(steps.values()).sort((a, b) => a.number - b.number)
RECURSIVE SortedSteps(_)
SortedSteps(m) ==
  IF m = <<>> THEN <<>>
  ELSE LET least == CHOOSE i \in 1..Len(m) : \A j \in 1..Len(m) : m[i].number <= m[j].number
       IN <<m[least]>> \o SortedSteps(SubSeq(m, 1, least - 1) \o SubSeq(m, least + 1, Len(m)))

\* renderStep: what one step's markup shows.
RenderStep(step) ==
  [number |-> step.number, action |-> step.action, class |-> step.status,
   duration |-> step.duration]

\* updateStepsList
UpdateStepsList(m) == LET sorted == SortedSteps(m) IN [i \in 1..Len(sorted) |-> RenderStep(sorted[i])]

RECURSIVE TotalDuration(_)
TotalDuration(m) == IF m = <<>> THEN 0 ELSE Head(m).duration + TotalDuration(Tail(m))

\* A summary that counts every step not failed as passed.
ShowSummaryRestPassed(m) ==
  LET failed == Cardinality({i \in 1..Len(m) : m[i].status \in {"failed", "skipped"}})
  IN [shown |-> TRUE, class |-> IF failed > 0 THEN "failed" ELSE "passed",
      title |-> IF failed > 0 THEN "Test Failed" ELSE "Test Passed",
      passedCount |-> Len(m) - failed, failedCount |-> failed, totalDuration |-> TotalDuration(m)]

\* showSummary: the counters come from the step states, not from the event.
ShowSummary(m) ==
  LET passed == Cardinality({i \in 1..Len(m) : m[i].status = "passed"})
      failed == Cardinality({i \in 1..Len(m) : m[i].status \in {"failed", "skipped"}})
  IN [shown |-> TRUE, class |-> IF failed > 0 THEN "failed" ELSE "passed",
      title |-> IF failed > 0 THEN "Test Failed" ELSE "Test Passed",
      passedCount |-> passed, failedCount |-> failed, totalDuration |-> TotalDuration(m)]

\* Progress through run_started, step_started(1), step_completed(1, passed),
\* run_completed(passed) after a clear.
NextMatched(k, e) ==
  IF k = 0 /\ e.type = "run_started" THEN 1
  ELSE IF k = 1 /\ e.type = "step_started" /\ e.step_number = 1 THEN 2
  ELSE IF k = 2 /\ e.type = "step_completed" /\ e.step_number = 1 /\ e.status = "passed" THEN 3
  ELSE IF k = 3 /\ e.type = "run_completed" /\ e.status = "passed" THEN 4
  ELSE -1

StepNumbersOf(m) == {m[i].number : i \in 1..Len(m)}

\* The history variables after event e.
Observe(e) ==
  /\ matched' = NextMatched(matched, e)
  /\ completedSeen' = (completedSeen \/ e.type = "run_completed")
  /\ retryPending' = (e.type = "retry_scheduled")
  /\ noticeLast' = (e.type \in {"error", "warning"})
  /\ frozen' = IF e.type = "run_started" /\ retryPending THEN StepNumbersOf(steps) ELSE frozen

\* processToolResult with data.error set: the error shows and nothing else
\* changes.
ProcessToolResultError ==
  /\ fpc = "idle"
  /\ loadingShown' = FALSE
  /\ errorShown' = TRUE
  /\ matched' = -1
  /\ completedSeen' = FALSE
  /\ retryPending' = FALSE
  /\ noticeLast' = FALSE
  /\ frozen' = {}
  /\ UNCHANGED <<fpc, steps, stepsList, summary, containerShown, testName>>
  /\ UNCHANGED <<cvars, rvars, pvars>>

\* processToolResult up to events.forEach.
ProcessToolResult(name) ==
  /\ fpc = "idle"
  /\ loadingShown' = FALSE
  /\ testName' = IF name = "undefined" THEN testName ELSE name
  /\ containerShown' = TRUE
  /\ steps' = <<>>
  /\ fpc' = "folding"
  /\ matched' = 0
  /\ completedSeen' = FALSE
  /\ retryPending' = FALSE
  /\ noticeLast' = FALSE
  /\ frozen' = {}
  /\ UNCHANGED <<stepsList, summary, errorShown>>
  /\ UNCHANGED <<cvars, rvars, pvars>>

\* A switch in which an error event fails the steps still running.
StepsAfterErrorFails(m, e) ==
  IF e.type = "step_started" /\ e.step_number # 0
  THEN MapSet(m, e.step_number, StartedStep(e))
  ELSE IF e.type = "step_completed" /\ e.step_number # 0 /\ MapHas(m, e.step_number)
  THEN MapSet(m, e.step_number, CompletedStep(MapGet(m, e.step_number), e))
  ELSE IF e.type = "error"
  THEN [i \in 1..Len(m) |-> IF m[i].status = "running" THEN [m[i] EXCEPT !.status = "failed"] ELSE m[i]]
  ELSE m

\* A switch in which retry_scheduled empties the Map.
StepsAfterRetryClears(m, e) ==
  IF e.type = "step_started" /\ e.step_number # 0
  THEN MapSet(m, e.step_number, StartedStep(e))
  ELSE IF e.type = "step_completed" /\ e.step_number # 0 /\ MapHas(m, e.step_number)
  THEN MapSet(m, e.step_number, CompletedStep(MapGet(m, e.step_number), e))
  ELSE IF e.type = "retry_scheduled"
  THEN <<>>
  ELSE m

\* The `steps` Map after the switch of processEvent: only step_started with
\* a step number, and step_completed for a step the Map holds, change it.
StepsAfter(m, e) ==
  IF e.type = "step_started" /\ e.step_number # 0
  THEN MapSet(m, e.step_number, StartedStep(e))
  ELSE IF e.type = "step_completed" /\ e.step_number # 0 /\ MapHas(m, e.step_number)
  THEN MapSet(m, e.step_number, CompletedStep(MapGet(m, e.step_number), e))
  ELSE m

\* The branches of the switch that end in updateStepsList().
Renders(m, e) ==
  \/ e.type = "step_started" /\ e.step_number # 0
  \/ e.type = "step_completed" /\ e.step_number # 0 /\ MapHas(m, e.step_number)

\* processEvent(event), the callback of events.forEach.
ProcessEvent(e) ==
  /\ fpc = "folding"
  /\ Observe(e)
  /\ steps' = StepsAfter(steps, e)
  /\ stepsList' = IF Renders(steps, e) THEN UpdateStepsList(steps') ELSE stepsList
  /\ summary' = IF e.type = "run_completed" THEN ShowSummary(steps) ELSE summary
  /\ UNCHANGED <<fpc, errorShown, loadingShown, containerShown, testName>>
  /\ UNCHANGED <<cvars, rvars, pvars>>

\* events.forEach has visited every event: processToolResult returns.
EndResult ==
  /\ fpc = "folding"
  /\ fpc' = "idle"
  /\ UNCHANGED <<steps, stepsList, summary, errorShown, loadingShown, containerShown,
                 testName, matched, completedSeen, retryPending, noticeLast, frozen>>
  /\ UNCHANGED <<cvars, rvars, pvars>>

BeginResult == \E name \in NameInputs : ProcessToolResult(name)

FoldEvent == \E e \in FoldEvents : ProcessEvent(e)

InitFold ==
  /\ ClientIdle
  /\ RelayIdle
  /\ PairIdle
  /\ fpc = "idle"
  /\ FoldStart

NextFold ==
  \/ ProcessToolResultError
  \/ BeginResult
  \/ FoldEvent
  \/ EndResult

SpecFold == InitFold /\ [][NextFold]_vars

\* ================================================================ claims
\* ----------------------------------------------- reference: whole stream
\* The values yielded for a list of lines, in order.
RECURSIVE EventsOf(_)
EventsOf(ls) ==
  IF ls = <<>> THEN <<>>
  ELSE LET e == LineEvent(Head(ls)) IN
       IF e.yields THEN <<e.event>> \o EventsOf(Tail(ls)) ELSE EventsOf(Tail(ls))

\* The text of a byte sequence received as one chunk.
TextOf(bytes) == DecodeStream(<<>>, bytes).text

\* The "\n"-delimited lines of a text (the last one is the unterminated rest).
LinesOf(bytes) == Split(TextOf(bytes))

\* The lines of a text that are terminated by a newline.
CompleteLinesOf(bytes) == LET ls == LinesOf(bytes) IN SubSeq(ls, 1, Len(ls) - 1)

\* The events of a stream delivered as one single chunk.
WholeStreamEvents(bytes) == EventsOf(LinesOf(bytes))

IsPrefixOf(a, b) == Len(a) <= Len(b) /\ SubSeq(b, 1, Len(a)) = a

IsDataLine(line) == StartsWith(line, DataPrefix)

PayloadOf(line) == Trim(Slice(line, PrefixLen))

Parseable(line) == IsDataLine(line) /\ PayloadOf(line) # <<>> /\ JSONParse(PayloadOf(line)).ok

Malformed(line) == IsDataLine(line) /\ PayloadOf(line) # <<>> /\ ~JSONParse(PayloadOf(line)).ok

EmptyData(line) == IsDataLine(line) /\ PayloadOf(line) = <<>>

CountParseable(ls) == Cardinality({i \in 1..Len(ls) : Parseable(ls[i])})

CountMalformed(ls) == Cardinality({i \in 1..Len(ls) : Malformed(ls[i])})

CountEmptyData(ls) == Cardinality({i \in 1..Len(ls) : EmptyData(ls[i])})

CountDataLines(ls) == Cardinality({i \in 1..Len(ls) : IsDataLine(ls[i])})

\* C1: whatever the split of the stream into chunks, an exhausted stream has
\* yielded exactly the events that the same stream yields as one chunk.
C1_ChunkingInvariant ==
  pc = "done" => yielded = WholeStreamEvents(resp.body)

\* C1 witness: a stream was exhausted after a line of it arrived in several
\* chunks, with at least two events yielded.
C1_Witness ==
  pc = "done" /\ splitYield /\ Len(yielded) >= 2

\* C2: every newline-terminated `data: ` line with a non-empty parseable
\* payload has produced exactly one event, at every moment and for every
\* chunking: the events yielded plus those still due from the lines of the
\* current chunk number the parseable data lines received so far; at the end
\* of the stream the unterminated last line counts too.
C2_OneEventPerDataLine ==
  /\ pc \in {"read", "yield"} /\ phase = "loop" =>
       Len(yielded) + CountParseable(pending)
         = CountParseable(CompleteLinesOf(SubSeq(resp.body, 1, pos)))
  /\ pc = "done" \/ (pc = "yield" /\ phase = "final") =>
       Len(yielded) = CountParseable(LinesOf(resp.body))

\* C2 witness: an event has just been yielded from a data line that arrived
\* in several chunks, while a further data line of the same chunk is due.
C2_Witness ==
  pc = "yield" /\ splitYield /\ Len(yielded) = 1 /\ CountParseable(pending) >= 1

\* C3: in an exhausted stream of N data lines of which exactly one is
\* malformed and the others are well-formed, exactly N-1 events were yielded
\* and no error was raised.
C3_MalformedDropped ==
  LET ls == LinesOf(resp.body) IN
  (pc = "done" /\ CountMalformed(ls) = 1 /\ CountEmptyData(ls) = 0) =>
    (Len(yielded) = CountDataLines(ls) - 1 /\ error = <<>>)

\* C3 witness: a malformed line between two well-formed ones, both yielded.
C3_Witness ==
  LET ls == LinesOf(resp.body) IN
  /\ pc = "done"
  /\ Len(ls) >= 3
  /\ Parseable(ls[1]) /\ Malformed(ls[2]) /\ Parseable(ls[3])
  /\ Len(yielded) = 2

\* C4: the events are yielded in the order of their data lines, and the tool
\* handler's array holds them in that order: at every moment `events` is a
\* prefix of the yielded sequence, which is a prefix of the stream's events,
\* and a consumer that ran to the end holds all of them.
C4_OrderPreserved ==
  /\ IsPrefixOf(yielded, WholeStreamEvents(resp.body))
  /\ IsPrefixOf(events, yielded)
  /\ Len(yielded) - Len(events) <= 1
  /\ pc = "done" => events = yielded

\* C4 witness: two different events collected at the end of a stream.
C4_Witness ==
  pc = "done" /\ Len(events) = 2 /\ events[1] # events[2]

\* C5 (as claimed): every yielded value carries a `type` tag of the SSEEvent
\* union; a parsed payload with another type, or none, is not yielded.
C5_OnlyKnownTypesYielded ==
  \A i \in 1..Len(yielded) : TypeOf(yielded[i]) \in SSEEventTypes

\* C6: on a non-success response the exchange fails with the error carrying
\* the response body text, with no event yielded, no reader acquired and no
\* reader.read() started.
C6_NonSuccessFailsFast ==
  resp.kind = "notok" =>
    /\ yielded = <<>> /\ acquires = 0 /\ ~readStarted
    /\ pc \in {"idle", "prefailed", "failed"}
    /\ pc = "failed" => error = <<FailPrefix(op), resp.body>>

\* C6 witness: executeSteps failed on a non-success response with a body.
C6_Witness ==
  pc = "failed" /\ resp.kind = "notok" /\ resp.body # <<>> /\ op = "executeSteps"

\* C7: a success response without a body fails with `No response body`, with
\* no event yielded and no reader acquired.
C7_NoBodyFails ==
  resp.kind = "nobody" =>
    /\ yielded = <<>> /\ acquires = 0 /\ releases = 0 /\ ~readStarted
    /\ pc \in {"idle", "prefailed", "failed"}
    /\ pc = "failed" => error = <<"No response body">>

\* C7 witness: the exchange failed on a bodyless success response.
C7_Witness ==
  pc = "failed" /\ resp.kind = "nobody"

\* C8: the read handle is released exactly once however the exchange
\* finishes (exhausted, abandoned by the consumer, or a failed read), and it
\* is not released while the generator can still read.
C8_ReleasedExactlyOnce ==
  /\ pc \in {"read", "yield"} => (acquires = 1 /\ releases = 0)
  /\ pc \in {"done", "returned"} => (acquires = 1 /\ releases = 1)
  /\ pc = "failed" => releases = acquires
  /\ acquires <= 1

\* C8 witness: the consumer abandoned the sequence before the end of the
\* stream and the handle was released.
C8_Witness ==
  pc = "returned" /\ releases = 1 /\ pos < Len(resp.body)

\* C9 (as claimed): when the consumer stops before the end of the stream,
\* the upstream body is cancelled.
C9_AbandonCancelsUpstream ==
  pc = "returned" => cancelled

\* The JSON error answer of the relay holds the given text.
Carries(payload, text) == \E i \in 1..Len(payload.error) : payload.error[i] = text

\* The relay answered a non-success upstream response and did nothing else.
JsonOnly ==
  /\ jsonCalls = 1
  /\ resStatus = up.status
  /\ resHeaders = {} /\ ~flushed
  /\ rAcquires = 0 /\ rpos = 0
  /\ written = <<>> /\ endCalls = 0

\* C10 (as claimed): on a non-success upstream status the relay sends exactly
\* one JSON error response carrying the upstream status and the upstream
\* error body, sets no event-stream headers, acquires no reader and writes
\* no chunk.
C10_NotOkJsonWithBody ==
  (up.kind = "notok" /\ rpc = "finished" /\ upstreamCalls = 1) =>
    (JsonOnly /\ Carries(resJson, up.body))

\* C10 (amended): on a non-success upstream status the relay sends exactly
\* one JSON error response carrying the upstream status and the message
\* "Checkmate API error: " followed by the upstream status text, sets no
\* event-stream headers, acquires no reader and writes no chunk.
C10_NotOkJsonWithStatusText ==
  (up.kind = "notok" /\ rpc = "finished" /\ upstreamCalls = 1) =>
    (JsonOnly /\ resJson = [error |-> <<"Checkmate API error: ", up.statusText>>, details |-> FALSE])

\* C10 witness: a 404 with a body was answered by the relay.
C10_Witness ==
  /\ up.kind = "notok" /\ up.status = 404 /\ up.body # "" /\ up.statusText = "Not Found"
  /\ rpc = "finished" /\ upstreamCalls = 1 /\ jsonCalls = 1

\* The relay streamed: the event-stream headers went out and a reader was
\* acquired on the upstream body.
Streaming == flushed /\ rAcquires = 1

\* C11 (as claimed): if the downstream goes away before the upstream stream
\* completes, also while the upstream fetch is still pending and the close
\* listener is not registered yet, the upstream read is cancelled: no chunk
\* is read from upstream after the downstream has gone, and a stream that
\* ended after the disconnect ended by cancellation.
C11_DisconnectCancelsUpstream ==
  (closed /\ Streaming) => rcancelled

\* C12 (as claimed): once byte-forwarding has started and the upstream stream
\* has ended, normally or by a failed read, res.end() has been called.
C12_UpstreamEndClosesDownstream ==
  (Streaming /\ rpc \in {"finished", "crashed"}) => endCalls >= 1

\* C13 (as claimed): a JSON error response is attempted only on a response
\* whose event-stream headers are not sent and to which no byte was written.
C13_ModesExclusive ==
  (flushed \/ written # <<>>) => jsonCalls = 0

\* C14: in streaming mode the chunks written downstream are exactly the
\* chunks read from upstream so far, in order, and all of the upstream's
\* chunks once it ended without a cancellation.
C14_VerbatimForwarding ==
  /\ written = SubSeq(up.chunks, 1, rpos)
  /\ (Streaming /\ rpc = "finished" /\ ~rcancelled) => written = up.chunks

\* C14 witness: a two-chunk stream was forwarded to its end.
C14_Witness ==
  Streaming /\ rpc = "finished" /\ ~closed /\ Len(written) = 2 /\ written = up.chunks

\* The path parameter is the decimal text of a positive integer.
PositiveIntegerText(text) ==
  /\ text # <<>>
  /\ \A i \in 1..Len(text) : text[i] \in Digits
  /\ \E i \in 1..Len(text) : text[i] # "0"

\* The inbound request is invalid in one of the ways the claim lists.
InvalidRequest(r) ==
  IF r.endpoint = "testCase"
  THEN ~PositiveIntegerText(r.param) \/ ~(r.body.browser \in BrowserEnum \cup {"undefined"})
  ELSE \/ r.body.project_id <= 0
       \/ r.body.steps = <<>>
       \/ ~(r.body.browser \in BrowserEnum \cup {"undefined"})
       \/ (r.body.fixture_ids.present /\ \E i \in 1..Len(r.body.fixture_ids.ids) : r.body.fixture_ids.ids[i] <= 0)

\* C15 (as claimed): an invalid request (test case id not a positive integer,
\* browser outside the enum, empty step list, non-positive project or fixture
\* id) is answered with status 400 and a payload naming the failure, and no
\* upstream exchange is opened for it.
C15_InvalidRequestRejected ==
  (InvalidRequest(rq) /\ rpc # "start") =>
    (resStatus = 400 /\ resJson.error # <<>> /\ upstreamCalls = 0 /\ rpc = "finished")

Passed == [kind |-> "string", str |-> <<"p", "a", "s", "s", "e", "d">>]

\* structuredContent.status of a tool result, undefined if it has none.
ResultStatus(r) == IF "status" \in DOMAIN r THEN r.status ELSE JsUndefined

\* C20: when a read of the stream fails after the reader was acquired, the
\* generator ends (it is not suspended at a yield), the lock on the body has
\* been released exactly once, and the tool handler has returned a result
\* whose status is not passed, whatever events it had collected.
C20_MidStreamDropReported ==
  (pc = "failed" /\ acquires = 1) =>
    /\ releases = 1
    /\ cur = NoEvent
    /\ result # NoResult
    /\ ResultStatus(result) # Passed

\* C20 witness: the read failed after a run_completed event with status
\* passed had been yielded and collected.
C20_Witness ==
  /\ pc = "failed"
  /\ acquires = 1
  /\ releases = 1
  /\ result.kind = "error"
  /\ \E i \in 1..Len(events) :
       /\ events[i].kind = "object"
       /\ TypeOf(events[i]) = TRunCompleted
       /\ MemberOf(events[i].members, StatusKey, JsUndefined) = Passed

\* C16: after run_started, step_started(1), step_completed(1, passed),
\* run_completed(passed) folded from cleared steps, the Map holds exactly one
\* step, number 1 at status passed, the rendered list shows it, and the
\* summary shows the passed verdict with one passed step and no failed one.
C16_OneStepPassingRun ==
  matched = 4 =>
    /\ Len(steps) = 1
    /\ steps[1].number = 1
    /\ steps[1].status = "passed"
    /\ Len(stepsList) = 1
    /\ stepsList[1].class = "passed"
    /\ summary.shown
    /\ summary.class = "passed"
    /\ summary.passedCount = 1
    /\ summary.failedCount = 0

\* C16 witness: the four events were folded and processToolResult returned.
C16_Witness == matched = 4 /\ fpc = "idle" /\ Len(steps) = 1

\* C17 (as claimed): when processToolResult has returned for a result whose
\* events hold no run_completed (an error result of a run cut off mid-stream
\* included), the view shows no passed verdict.
C17_NoPassWithoutCompletion ==
  (fpc = "idle" /\ ~loadingShown /\ ~completedSeen) =>
    ~(summary.shown /\ summary.class = "passed")

\* The state kept for step number n, or "none".
StepOf(m, n) == IF MapHas(m, n) THEN MapGet(m, n) ELSE [number |-> n, status |-> "none"]

\* C18 (as claimed): once a retry_scheduled was followed by a run_started,
\* the step states of the attempt it superseded are changed by no later
\* event of the next attempt.
C18_SupersededAttemptImmutable ==
  [][\A n \in frozen \cap frozen' : StepOf(steps', n) = StepOf(steps, n)]_vars

\* C19: the rendered steps are in strictly ascending step_number order (so
\* no step number shows twice), and they are the steps of the Map whenever
\* it has been rendered since it was cleared.
C19_AscendingEnumeration ==
  /\ \A i \in 1..Len(stepsList) : \A j \in 1..Len(stepsList) :
       i < j => stepsList[i].number < stepsList[j].number
  /\ steps # <<>> => {stepsList[i].number : i \in 1..Len(stepsList)} = StepNumbersOf(steps)
  /\ steps # <<>> => Len(stepsList) = Len(steps)

\* C19 witness: step 2 arrived before step 1 and both are rendered.
C19_Witness ==
  /\ Len(steps) = 2
  /\ steps[1].number = 2
  /\ steps[2].number = 1
  /\ Len(stepsList) = 2
  /\ stepsList[1].number = 1

\* C21 (as claimed): a step_started for a step number that already has a
\* step state leaves that step's status and duration as they were; a late
\* step_started does not set a completed step back to running.
C21_RestartKeepsStatus ==
  [][\A e \in FoldEvents :
       (e.type = "step_started" /\ MapHas(steps, e.step_number) /\ ProcessEvent(e)) =>
         /\ StepOf(steps', e.step_number).status = StepOf(steps, e.step_number).status
         /\ StepOf(steps', e.step_number).duration = StepOf(steps, e.step_number).duration]_vars

\* C22 (as claimed): a step_completed for a step number that has no step
\* state creates one with the completed status, and the step is rendered.
C22_CompletionCreatesStep ==
  [][\A e \in FoldEvents :
       (e.type = "step_completed" /\ e.step_number # 0 /\ ~MapHas(steps, e.step_number)
          /\ ProcessEvent(e)) =>
         /\ MapHas(steps', e.step_number)
         /\ StepOf(steps', e.step_number).status = OrElse(e.status, "passed")
         /\ \E i \in 1..Len(stepsList') : stepsList'[i].number = e.step_number]_vars

\* C23 (as claimed): after run_completed the verdict shown is the status the
\* event reports, whatever the step states are.
C23_VerdictIsReportedStatus ==
  [][\A e \in FoldEvents :
       (e.type = "run_completed" /\ ProcessEvent(e)) =>
         (summary'.shown /\ summary'.class = e.status)]_vars

\* Steps of a Map at one of the given statuses, counted one by one.
RECURSIVE Tally(_, _)
Tally(m, statuses) ==
  IF m = <<>> THEN 0
  ELSE (IF Head(m).status \in statuses THEN 1 ELSE 0) + Tally(Tail(m), statuses)

\* C24: each summary shows as pass tally the number of steps whose status is
\* passed at that moment and as error tally the number whose status is
\* failed or skipped; steps still running count in neither, and nothing is
\* carried over from an earlier summary.
C24_TalliesFromCurrentStatus ==
  [][\A e \in FoldEvents :
       (e.type = "run_completed" /\ ProcessEvent(e)) =>
         /\ summary'.passedCount = Tally(steps, {"passed"})
         /\ summary'.failedCount = Tally(steps, {"failed", "skipped"})
         /\ summary'.passedCount + summary'.failedCount + Tally(steps, {"running"}) = Len(steps)]_vars

\* C24 witness: a summary taken while one step has passed and the other is
\* still running shows one passed and none failed.
C24_Witness ==
  /\ completedSeen
  /\ Len(steps) = 2
  /\ Tally(steps, {"passed"}) = 1
  /\ Tally(steps, {"running"}) = 1
  /\ summary.shown
  /\ summary.passedCount = 1
  /\ summary.failedCount = 0

\* C25: an error or warning event changes no step state, nothing of the
\* rendered steps and nothing of the summary, wherever it occurs.
C25_NoticesChangeNothing ==
  [][\A e \in FoldEvents :
       (e.type \in {"error", "warning"} /\ ProcessEvent(e)) =>
         UNCHANGED <<steps, stepsList, summary>>]_vars

\* C25 witness: an error or warning was just folded while one step was
\* running and another had completed.
C25_Witness ==
  /\ noticeLast
  /\ Len(steps) = 2
  /\ Tally(steps, {"running"}) = 1

\* C26: a retry_scheduled event changes no step state and nothing of the
\* verdict shown.
C26_RetryScheduledChangesNothing ==
  [][\A e \in FoldEvents :
       (e.type = "retry_scheduled" /\ ProcessEvent(e)) =>
         (steps' = steps /\ stepsList' = stepsList /\ summary' = summary)]_vars

\* C26 witness: retry_scheduled was just folded after a failed step.
C26_Witness ==
  /\ retryPending
  /\ Tally(steps, {"failed"}) >= 1

\* C27 (as claimed): the step states are cleared when a new run attempt
\* begins (run_started), so that the Map never holds steps of the attempt
\* before; between two run_started events no step number is removed.
C27_ClearedAtRunStarted ==
  [][\A e \in FoldEvents :
       ProcessEvent(e) =>
         IF e.type = "run_started" THEN steps' = <<>>
         ELSE StepNumbersOf(steps) \subseteq StepNumbersOf(steps')]_vars

\* A data line with nothing, or nothing but white space, after the prefix.
BlankPayload(line) ==
  IsDataLine(line) /\ \A i \in (PrefixLen + 1)..Len(line) : line[i] \in WhiteSpace

\* The data lines of a stream that carry a payload.
CountPayloadLines(ls) == Cardinality({i \in 1..Len(ls) : IsDataLine(ls[i]) /\ ~BlankPayload(ls[i])})

\* The text after the last newline of a stream.
FinalFragment(bytes) == LET ls == LinesOf(bytes) IN ls[Len(ls)]

\* The stream has ended: the generator is past the final-buffer handling.
StreamEnded == pc = "done" \/ (pc = "yield" /\ phase = "final")

\* C28: a data line whose payload is empty or white space produces no event,
\* in the line loop and in the final-buffer handling alike: at no moment are
\* there more events than data lines with a payload, and a stream whose data
\* lines are all blank ends with no event.
C28_BlankPayloadNoEvent ==
  /\ Len(yielded) <= CountPayloadLines(LinesOf(resp.body))
  /\ (StreamEnded /\ BlankPayload(FinalFragment(resp.body))) =>
       Len(yielded) <= CountPayloadLines(CompleteLinesOf(resp.body))

\* C28 witness: a stream of a white-space data line and an unterminated
\* empty data line has ended without an event.
C28_Witness ==
  /\ pc = "done"
  /\ Len(LinesOf(resp.body)) = 2
  /\ BlankPayload(LinesOf(resp.body)[1])
  /\ Len(LinesOf(resp.body)[1]) > PrefixLen
  /\ buffer = DataPrefix
  /\ yielded = <<>>

\* C29: at the end of the stream the text after the last newline is handled
\* once as a line: if it is a data line with a payload that parses, exactly
\* one more event, its value, follows the events of the terminated lines;
\* otherwise nothing follows them.
C29_FinalFragmentOnce ==
  StreamEnded =>
    LET frag == FinalFragment(resp.body)
        before == CountParseable(CompleteLinesOf(resp.body))
    IN IF Parseable(frag)
       THEN /\ Len(yielded) = before + 1
            /\ yielded[Len(yielded)] = JSONParse(PayloadOf(frag)).val
       ELSE Len(yielded) = before

\* C29 witness: a stream ended whose unterminated last line gave the second
\* event.
C29_Witness ==
  /\ pc = "done"
  /\ Parseable(FinalFragment(resp.body))
  /\ CountParseable(CompleteLinesOf(resp.body)) = 1
  /\ Len(events) = 2

\* C30: whenever the relay is reading the upstream body or has written a
\* byte downstream, the response carries the three event-stream headers and
\* they have been flushed; a write never comes before the flush.
C30_HeadersBeforeBytes ==
  (rpc = "pumping" \/ rpos > 0 \/ written # <<>>) =>
    /\ flushed
    /\ <<"Content-Type", "text/event-stream">> \in resHeaders
    /\ <<"Cache-Control", "no-cache">> \in resHeaders
    /\ <<"Connection", "keep-alive">> \in resHeaders

\* C30 witness: the relay is between two reads, one chunk written, headers
\* flushed.
C30_Witness ==
  /\ rpc = "pumping"
  /\ flushed
  /\ Len(written) = 1
  /\ Len(up.chunks) = 2

FirstCompleted(ys) ==
  LET at == {i \in 1..Len(ys) : TypeOf(ys[i]) = TRunCompleted}
  IN IF at = {} THEN [found |-> FALSE]
     ELSE [found |-> TRUE, event |-> ys[CHOOSE i \in at : \A j \in at : i <= j]]

\* C34: when the stream was read to its end, the tool result carries the
\* status and summary of the first run_completed the generator yielded,
\* whatever run_completed events follow it, and the status `unknown` with the
\* summary `Test completed` if it yielded none.
C34_FirstCompletionReported ==
  pc = "done" =>
    /\ result.kind = "ok"
    /\ result.events = yielded
    /\ LET c == FirstCompleted(yielded) IN
       IF c.found
       THEN /\ result.status = MemberOf(c.event.members, StatusKey, JsUndefined)
            /\ result.summary = MemberOf(c.event.members, SummaryKey, JsUndefined)
       ELSE /\ result.status = [kind |-> "string", str |-> <<"u", "n", "k", "n", "o", "w", "n">>]
            /\ result.summary = [kind |-> "string", str |-> <<"Test completed">>]

\* C34 witness: a failed attempt was followed by a passed retry in the same
\* stream, and the result reports failed.
C34_Witness ==
  /\ pc = "done"
  /\ Len(yielded) = 2
  /\ TypeOf(yielded[1]) = TRunCompleted
  /\ TypeOf(yielded[2]) = TRunCompleted
  /\ MemberOf(yielded[2].members, StatusKey, JsUndefined) = Passed
  /\ result.status = [kind |-> "string", str |-> <<"f", "a", "i", "l", "e", "d">>]

\* C35: however the tool handler fails (before the stream is opened, when it
\* is established, on a read mid-stream, or in its own loop), it returns an
\* error result with the error's message and an empty event list, also when
\* events had been collected.
C35_FailureGivesErrorResult ==
  pc \in {"prefailed", "failed", "threw"} =>
    /\ result.kind = "error"
    /\ result.error = error
    /\ error # <<>>
    /\ result.events = <<>>

\* C35 witness: a read failed after two events had been collected.
C35_Witness ==
  /\ pc = "failed"
  /\ readStarted
  /\ Len(events) = 2
  /\ result.events = <<>>

\* C36: while the stream is open, every event yielded comes from a line
\* whose newline has been received: the yielded values are a prefix of the
\* events of the newline-terminated lines received so far.
C36_NoEventFromIncompleteLine ==
  phase = "loop" =>
    IsPrefixOf(yielded, EventsOf(CompleteLinesOf(SubSeq(resp.body, 1, pos))))

\* C36 witness: a whole data line with a payload that parses has arrived
\* without its newline; it sits in the buffer and nothing has been yielded.
C36_Witness ==
  /\ pc = "read"
  /\ pos < Len(resp.body)
  /\ resp.body[pos + 1] = NL
  /\ Parseable(buffer)
  /\ yielded = <<>>

\* C38: the buffer holds no newline and is the text received so far that
\* follows the last newline, empty if that text ends with a newline.
C38_BufferIsLastFragment ==
  /\ \A i \in 1..Len(buffer) : buffer[i] # NL
  /\ buffer = FinalFragment(SubSeq(resp.body, 1, pos))

\* C38 witness: after a chunk that ended in the middle of the second line
\* the buffer holds the start of that line.
C38_Witness ==
  /\ pc \in {"read", "yield"}
  /\ buffer # <<>>
  /\ Len(CompleteLinesOf(SubSeq(resp.body, 1, pos))) = 1
  /\ pos < Len(resp.body)
  /\ resp.body[pos + 1] # NL

\* C37 (as claimed): the view after processToolResult has returned is the
\* one a fold of the same result from the freshly loaded page gives; for a
\* result whose events hold no run_completed that fold never calls
\* showSummary, so the summary is hidden whatever was folded before.
C37_FoldIgnoresEarlierResults ==
  (fpc = "idle" /\ ~loadingShown /\ ~completedSeen) => summary = SummaryHidden

\* C33: in every step of a proxy request the response has been completed at
\* most once, counting res.json() and res.end() calls together, and no
\* chunk is written once res.end() has been called.
C33_CompletedAtMostOnce ==
  [][/\ jsonCalls' + endCalls' <= 1
     /\ endCalls >= 1 => written' = written]_vars

\* C33 witness: a stream of two chunks was relayed and ended by the one
\* res.end().
C33_Witness ==
  /\ rpc = "finished"
  /\ Len(written) = 2
  /\ endCalls = 1
  /\ jsonCalls = 0

\* C32: with two proxy requests in progress in any interleaving, what each
\* relay has written downstream is a prefix of the chunks of its own
\* upstream response, and a step in which one request's client disconnects
\* or its upstream read fails changes neither the other request's response
\* nor its upstream.
C32_RequestsIsolated ==
  [][\A i \in Requests :
       /\ IsPrefixOf(hs'[i].written, ups'[i].chunks)
       /\ (hs'[i].closed # hs[i].closed \/ (hs'[i].rpc = "crashed" /\ hs[i].rpc # "crashed")) =>
            \A j \in Requests \ {i} : hs'[j] = hs[j] /\ ups'[j] = ups[j]]_vars

\* C32 witness: request 2 lost its client after one chunk and was ended,
\* while request 1 relayed both chunks of its own upstream to the end.
C32_Witness ==
  /\ hs # <<>>
  /\ hs[2].closed
  /\ hs[2].rpc = "finished"
  /\ Len(ups[2].chunks) = 2
  /\ Len(hs[2].written) = 1
  /\ ~hs[1].closed
  /\ hs[1].rpc = "finished"
  /\ Len(hs[1].written) = 2
  /\ hs[1].endCalls = 1

====
